---------------------------- MODULE Spec2Model ----------------------------
(***************************************************************************)
(* A model of aidenbell1/Spotify_Manager.                                  *)
(*                                                                         *)
(*   Spec      the command line tool src/spotify_manager.py: one run of    *)
(*             main() against a remote provider whose calls may fail.      *)
(*   SpecAuth  the web backend's src/backend/services/auth_service.py:     *)
(*             login urls, OAuth callbacks served by concurrent threads,   *)
(*             and session lookups.                                        *)
(*                                                                         *)
(* Both specifications share the module's variables; each leaves the       *)
(* other's variables unchanged.                                            *)
(***************************************************************************)
EXTENDS Integers, Sequences, FiniteSets

VARIABLES
    \* ---- src/spotify_manager.py ----
    top_remote,     \* the provider's top tracks of the user, in provider order
    liked_remote,   \* the provider's saved tracks: track ids, NullTrack for a removed track
    batch_size,     \* self.batch_size
    cmd,            \* which branch of main() runs: "show_top", "show_liked", "replace"
    limit,          \* args.limit
    dry_run,        \* args.dry_run
    pc,             \* the position of the run
    offset,         \* the local of the running pagination loop
    all_items,      \* all_top_tracks / all_liked_songs of the running loop
    top_tracks,     \* what get_top_tracks returned: the 'items' list
    liked_songs,    \* what get_liked_songs returned: the 'items' list
    top_track_ids,  \* replace_liked_with_top's local
    action,         \* _process_in_batches: its action argument
    track_ids,      \* _process_in_batches: its track_ids argument
    i,              \* _process_in_batches: the loop variable
    success_count,  \* _process_in_batches
    error_count,    \* _process_in_batches
    ret,            \* what the last _process_in_batches returned
    result,         \* what replace_liked_with_top returned
    trace,          \* every remote call and every time.sleep of the run, in order
    \* ---- src/backend/services/auth_service.py ----
    pending_states, \* the module's pending_states dict (its keys)
    users,          \* the users table: spotify_id -> record
    sessions,       \* the sessions table: id -> record
    now,            \* the clock, in days
    issued,         \* how many secrets.token_urlsafe(32) values were drawn so far
    served,         \* how many callback requests have reached handle_spotify_callback
    cb,             \* per worker thread, the callback request it serves or served last
    lookup          \* the get_current_user call of the last step, if it was one, and what it gave

mgr_vars == <<top_remote, liked_remote, batch_size, cmd, limit, dry_run, pc, offset,
              all_items, top_tracks, liked_songs, top_track_ids, action, track_ids, i,
              success_count, error_count, ret, result, trace>>

auth_vars == <<pending_states, users, sessions, now, issued, served, cb, lookup>>

vars == <<mgr_vars, auth_vars>>

----------------------------------------------------------------------------
(* Bounds of the model.                                                    *)

MaxTop == 3
MaxLimit == 2
MaxLiked == 2
MaxBatch == 2
ExampleIds == 45
MaxCalls == 2
MaxIssued == 2
MaxTicks == 2

(* Program constants.                                                      *)

DEFAULT_BATCH_SIZE == 20
LikedPageSize == 50
NullTrack == 0
SessionDays == 7
EmptyState == 0
EmptySession == 0

----------------------------------------------------------------------------
(* Helpers.                                                                *)

Min(a, b) == IF a < b THEN a ELSE b

RECURSIVE SumLen(_)
SumLen(s) == IF s = <<>> THEN 0 ELSE Len(Head(s).ids) + SumLen(Tail(s))

RECURSIVE Concat(_)
Concat(s) == IF s = <<>> THEN <<>> ELSE Head(s).ids \o Concat(Tail(s))

RECURSIVE ConcatItems(_)
ConcatItems(s) == IF s = <<>> THEN <<>> ELSE Head(s).items \o ConcatItems(Tail(s))

Ceil(n, d) == (n + d - 1) \div d

Ids(items) == [k \in 1..Len(items) |-> items[k].id]

----------------------------------------------------------------------------
(* The provider (spotipy client self.sp), as the tool uses it.             *)

\* current_user_top_tracks(limit, offset) / current_user_saved_tracks(limit, offset):
\* the items of the collection from offset on, at most limit of them.
Page(coll, off, lim) == SubSeq(coll, off + 1, Min(off + lim, Len(coll)))

\* current_user_saved_tracks_delete(batch)
SavedTracksDelete(liked, batch) ==
    SelectSeq(liked, LAMBDA e : \A k \in 1..Len(batch) : batch[k] # e)

\* current_user_saved_tracks_add(batch): the tracks not yet saved go on top.
SavedTracksAdd(liked, batch) ==
    SelectSeq(batch, LAMBDA t : \A k \in 1..Len(liked) : liked[k] # t) \o liked

TopTrackId(k, n) == 2 * (n - k + 1)

TopCollection(n) == [k \in 1..n |-> TopTrackId(k, n)]

LikedCollection(n, nulls) == [k \in 1..n |-> IF k \in nulls THEN NullTrack ELSE k]

LikedLens == (0..MaxLiked) \cup {ExampleIds, LikedPageSize, LikedPageSize + 1}

BatchSizes == (1..MaxBatch) \cup {DEFAULT_BATCH_SIZE}


----------------------------------------------------------------------------
(* What the run leaves in trace.                                           *)

PageRequest(api, off, lim, ok, items) ==
    [op |-> api, offset |-> off, limit |-> lim, ok |-> ok, items |-> items]

Mutation(api, batch, ok) == [op |-> api, ids |-> batch, ok |-> ok]

Sleep(which) == [op |-> "sleep", secs |-> which]

UserInfoRequest(ok) == [op |-> "current_user", ok |-> ok]

----------------------------------------------------------------------------
(* The pure parts of src/spotify_manager.py.                               *)

\* ShortPage never telling the end of the collection
ShortPageNever(items, lim) == FALSE

\* ShortPage with <= for <
ShortPageOrFull(items, lim) == Len(items) <= lim

\* get_top_tracks / get_liked_songs: `if len(batch_items) < limit: break`
ShortPage(items, lim) == Len(items) < lim

\* AfterPageError staying in the loop
AfterPageErrorContinue(exit, loop) == loop

\* get_top_tracks / get_liked_songs: `except Exception as e: ... break`, which
\* leaves `while True` for the formatting loop
AfterPageError(exit, loop) == exit

\* get_top_tracks: the formatting loop. name, artists and popularity are copied
\* from the provider's item and are left out.
FormatTop(all) == [k \in 1..Len(all) |-> [index |-> k, id |-> all[k]]]

\* get_liked_songs: the formatting loop: `'index': i + 1` for i, item in
\* enumerate(all_liked_songs), appended only `if track`.
FormatLiked(all) ==
    SelectSeq([k \in 1..Len(all) |-> [index |-> k, id |-> all[k]]],
              LAMBDA r : r.id # NullTrack)

\* Batch with an inclusive upper end
BatchInclusive(ids, at, size) == SubSeq(ids, at + 1, Min(at + size + 1, Len(ids)))

\* _process_in_batches: `batch = track_ids[i:i + self.batch_size]`
Batch(ids, at, size) == SubSeq(ids, at + 1, Min(at + size, Len(ids)))

\* MoreBatches with <= for <
MoreBatchesOrLast(at, size, n) == at + size <= n

\* _process_in_batches: `if i + self.batch_size < len(track_ids)`
MoreBatches(at, size, n) == at + size < n

\* BatchesReturn ignoring error_count
BatchesReturnTrue(errors) == "True"

\* _process_in_batches: `return error_count == 0`
BatchesReturn(errors) == IF errors = 0 THEN "True" ELSE "False"

\* ApiMethod with the two methods exchanged
ApiMethodSwapped(act) == IF act = "Removing" THEN "saved_tracks_add" ELSE "saved_tracks_delete"

\* clear_liked_songs / add_liked_songs: the api_method handed to _process_in_batches
ApiMethod(act) == IF act = "Removing" THEN "saved_tracks_delete" ELSE "saved_tracks_add"

ApiEffect(act, liked, batch) ==
    IF act = "Removing" THEN SavedTracksDelete(liked, batch)
    ELSE SavedTracksAdd(liked, batch)

\* AfterFetchTarget without the test for an empty list
AfterFetchTargetNoEmptyTest(ids, dry) == IF dry THEN "report" ELSE "clear"

\* AfterFetchTarget without the dry_run test
AfterFetchTargetNoDryRun(ids, dry) == IF ids = <<>> THEN "no_top" ELSE "clear"

\* replace_liked_with_top, after get_top_tracks: `if not top_track_ids` return
\* False, `if dry_run` report and return True, else go on to clear.
AfterFetchTarget(ids, dry) ==
    IF ids = <<>> THEN "no_top" ELSE IF dry THEN "report" ELSE "clear"

\* AfterClear going on whatever clear_liked_songs returned
AfterClearAlwaysAdd(cleared) == "add"

\* replace_liked_with_top: `if not self.clear_liked_songs(): return False`
AfterClear(cleared) == IF cleared = "False" THEN "abort" ELSE "add"

----------------------------------------------------------------------------
(* One run of main().                                                      *)

fetch_locals == <<offset, all_items>>
batch_locals == <<action, track_ids, i, success_count, error_count, ret>>
remote == <<top_remote, liked_remote>>
args == <<batch_size, cmd, limit, dry_run>>

MgrInit ==
    /\ \E n \in 0..MaxTop : top_remote = TopCollection(n)
    /\ batch_size \in BatchSizes
    /\ \E n \in LikedLens : \E nulls \in SUBSET (1..Min(n, MaxLiked)) :
          /\ n > MaxLiked => batch_size = DEFAULT_BATCH_SIZE
          /\ liked_remote = LikedCollection(n, nulls)
    /\ cmd = "none"
    /\ limit = 1
    /\ dry_run = FALSE
    /\ pc = "main"
    /\ offset = 0
    /\ all_items = <<>>
    /\ top_tracks = <<>>
    /\ liked_songs = <<>>
    /\ top_track_ids = <<>>
    /\ action = "none"
    /\ track_ids = <<>>
    /\ i = 0
    /\ success_count = 0
    /\ error_count = 0
    /\ ret = "none"
    /\ result = "none"
    /\ trace = <<>>

\* main(): `if args.show_top`
main_show_top(lim) ==
    /\ pc = "main"
    /\ cmd' = "show_top"
    /\ limit' = lim
    /\ pc' = "top_loop"
    /\ offset' = 0
    /\ all_items' = <<>>
    /\ UNCHANGED <<remote, batch_size, dry_run, top_tracks, liked_songs, top_track_ids,
                   batch_locals, result, trace, auth_vars>>

\* main(): `elif args.show_liked`
main_show_liked ==
    /\ pc = "main"
    /\ cmd' = "show_liked"
    /\ pc' = "liked_loop"
    /\ offset' = 0
    /\ all_items' = <<>>
    /\ UNCHANGED <<remote, batch_size, limit, dry_run, top_tracks, liked_songs,
                   top_track_ids, batch_locals, result, trace, auth_vars>>

\* main(): `else`, the call of replace_liked_with_top
main_replace(lim, dry) ==
    /\ pc = "main"
    /\ cmd' = "replace"
    /\ limit' = lim
    /\ dry_run' = dry
    /\ pc' = "get_user_info"
    /\ UNCHANGED <<remote, batch_size, fetch_locals, top_tracks, liked_songs,
                   top_track_ids, batch_locals, result, trace, auth_vars>>

\* replace_liked_with_top: get_user_info(), whose error is caught and printed;
\* then the entry of get_top_tracks.
get_user_info(ok) ==
    /\ pc = "get_user_info"
    /\ trace' = Append(trace, UserInfoRequest(ok))
    /\ pc' = "top_loop"
    /\ offset' = 0
    /\ all_items' = <<>>
    /\ UNCHANGED <<remote, args, top_tracks, liked_songs, top_track_ids, batch_locals,
                   result, auth_vars>>

\* get_top_tracks: one round of `while True`
get_top_tracks_page(ok) ==
    /\ pc = "top_loop"
    /\ LET items == Page(top_remote, offset, limit)
           req == PageRequest("top_tracks", offset, limit, ok, IF ok THEN items ELSE <<>>)
       IN IF ok
          THEN /\ all_items' = all_items \o items
               /\ IF ShortPage(items, limit)
                  THEN /\ pc' = "top_format"
                       /\ trace' = Append(trace, req)
                       /\ UNCHANGED offset
                  ELSE /\ offset' = offset + limit
                       /\ trace' = trace \o <<req, Sleep("delay")>>
                       /\ UNCHANGED pc
          ELSE /\ pc' = AfterPageError("top_format", pc)
               /\ trace' = Append(trace, req)
               /\ UNCHANGED <<offset, all_items>>
    /\ UNCHANGED <<remote, args, top_tracks, liked_songs, top_track_ids, batch_locals,
                   result, auth_vars>>

\* get_top_tracks: the formatting loop and the return
get_top_tracks_return ==
    /\ pc = "top_format"
    /\ top_tracks' = FormatTop(all_items)
    /\ pc' = IF cmd = "show_top" THEN "done" ELSE "fetch_target"
    /\ UNCHANGED <<remote, args, fetch_locals, liked_songs, top_track_ids, batch_locals,
                   result, trace, auth_vars>>

\* replace_liked_with_top: from `top_track_ids = ...` to the dry-run return
replace_fetch_target ==
    /\ pc = "fetch_target"
    /\ top_track_ids' = Ids(top_tracks)
    /\ LET next == AfterFetchTarget(Ids(top_tracks), dry_run)
       IN CASE next = "no_top" ->
                 /\ result' = "False"
                 /\ pc' = "done"
                 /\ UNCHANGED fetch_locals
            [] next = "report" ->
                 /\ result' = "True"
                 /\ pc' = "done"
                 /\ UNCHANGED fetch_locals
            [] OTHER ->
                 \* clear_liked_songs(None) calls get_liked_songs
                 /\ pc' = "liked_loop"
                 /\ offset' = 0
                 /\ all_items' = <<>>
                 /\ UNCHANGED result
    /\ UNCHANGED <<remote, args, top_tracks, liked_songs, batch_locals, trace, auth_vars>>

\* get_liked_songs: one round of `while True`
get_liked_songs_page(ok) ==
    /\ pc = "liked_loop"
    /\ LET items == Page(liked_remote, offset, LikedPageSize)
           req == PageRequest("saved_tracks", offset, LikedPageSize, ok,
                              IF ok THEN items ELSE <<>>)
       IN IF ok
          THEN /\ all_items' = all_items \o items
               /\ IF ShortPage(items, LikedPageSize)
                  THEN /\ pc' = "liked_format"
                       /\ trace' = Append(trace, req)
                       /\ UNCHANGED offset
                  ELSE /\ offset' = offset + LikedPageSize
                       /\ trace' = trace \o <<req, Sleep("delay")>>
                       /\ UNCHANGED pc
          ELSE /\ pc' = AfterPageError("liked_format", pc)
               /\ trace' = Append(trace, req)
               /\ UNCHANGED <<offset, all_items>>
    /\ UNCHANGED <<remote, args, top_tracks, liked_songs, top_track_ids, batch_locals,
                   result, auth_vars>>

\* get_liked_songs: the formatting loop and the return
get_liked_songs_return ==
    /\ pc = "liked_format"
    /\ liked_songs' = FormatLiked(all_items)
    /\ pc' = IF cmd = "show_liked" THEN "done" ELSE "clear"
    /\ UNCHANGED <<remote, args, fetch_locals, top_tracks, top_track_ids, batch_locals,
                   result, trace, auth_vars>>

\* _process_in_batches, from its entry to the loop: `if not track_ids: return True`,
\* else the counters start at 0.
EnterBatches(act, ids, returned) ==
    /\ action' = act
    /\ track_ids' = ids
    /\ i' = 0
    /\ success_count' = 0
    /\ error_count' = 0
    /\ IF ids = <<>>
       THEN /\ ret' = "True"
            /\ pc' = returned
       ELSE /\ ret' = "none"
            /\ pc' = "batches"

\* clear_liked_songs: `track_ids = [item['id'] ...]` and the call of _process_in_batches
clear_liked_songs ==
    /\ pc = "clear"
    /\ EnterBatches("Removing", Ids(liked_songs), "clear_returned")
    /\ UNCHANGED <<remote, args, fetch_locals, top_tracks, liked_songs, top_track_ids,
                   result, trace, auth_vars>>

\* _process_in_batches: one round of `for i in range(0, len(track_ids), self.batch_size)`
process_batch(ok) ==
    /\ pc = "batches"
    /\ i < Len(track_ids)
    /\ LET batch == Batch(track_ids, i, batch_size)
           call == Mutation(ApiMethod(action), batch, ok)
       IN IF ok
          THEN /\ liked_remote' = ApiEffect(action, liked_remote, batch)
               /\ success_count' = success_count + Len(batch)
               /\ trace' = IF MoreBatches(i, batch_size, Len(track_ids))
                           THEN trace \o <<call, Sleep("delay")>>
                           ELSE Append(trace, call)
               /\ UNCHANGED error_count
          ELSE /\ error_count' = error_count + Len(batch)
               /\ trace' = trace \o <<call, Sleep("error_delay")>>
               /\ UNCHANGED <<liked_remote, success_count>>
    /\ i' = i + batch_size
    /\ UNCHANGED <<top_remote, args, pc, fetch_locals, top_tracks, liked_songs,
                   top_track_ids, action, track_ids, ret, result, auth_vars>>

\* _process_in_batches: the loop is over, `return error_count == 0`
process_return ==
    /\ pc = "batches"
    /\ i >= Len(track_ids)
    /\ ret' = BatchesReturn(error_count)
    /\ pc' = IF action = "Removing" THEN "clear_returned" ELSE "add_returned"
    /\ UNCHANGED <<remote, args, fetch_locals, top_tracks, liked_songs, top_track_ids,
                   action, track_ids, i, success_count, error_count, result, trace,
                   auth_vars>>

\* replace_liked_with_top: `if not self.clear_liked_songs(): return False`, else the
\* call of add_liked_songs(top_track_ids)
replace_after_clear ==
    /\ pc = "clear_returned"
    /\ IF AfterClear(ret) = "abort"
       THEN /\ result' = "False"
            /\ pc' = "done"
            /\ UNCHANGED batch_locals
       ELSE /\ EnterBatches("Adding", top_track_ids, "add_returned")
            /\ UNCHANGED result
    /\ UNCHANGED <<remote, args, fetch_locals, top_tracks, liked_songs, top_track_ids,
                   trace, auth_vars>>

\* replace_liked_with_top: `if not self.add_liked_songs(top_track_ids): return False`,
\* else return True
replace_after_add ==
    /\ pc = "add_returned"
    /\ result' = ret
    /\ pc' = "done"
    /\ UNCHANGED <<remote, args, fetch_locals, top_tracks, liked_songs, top_track_ids,
                   batch_locals, trace, auth_vars>>

MgrNext ==
    \/ \E lim \in 1..MaxLimit : main_show_top(lim)
    \/ main_show_liked
    \/ \E lim \in 1..MaxLimit : \E dry \in BOOLEAN : main_replace(lim, dry)
    \/ \E ok \in BOOLEAN : get_user_info(ok)
    \/ \E ok \in BOOLEAN : get_top_tracks_page(ok)
    \/ get_top_tracks_return
    \/ replace_fetch_target
    \/ \E ok \in BOOLEAN : get_liked_songs_page(ok)
    \/ get_liked_songs_return
    \/ clear_liked_songs
    \/ \E ok \in BOOLEAN : process_batch(ok)
    \/ process_return
    \/ replace_after_clear
    \/ replace_after_add

\* The backend is not part of a run of the tool.
AuthQuiet ==
    /\ pending_states = {}
    /\ users = <<>>
    /\ sessions = <<>>
    /\ now = 0
    /\ issued = 0
    /\ served = 0
    /\ cb = <<>>
    /\ lookup = <<>>

----------------------------------------------------------------------------
(* src/backend/services/auth_service.py                                    *)
(*                                                                         *)
(* database.py defines no Session class although auth_service imports one: *)
(* the sessions table is modelled from its use at lines 65-69 and from the *)
(* specification's Session {id, userId, expiresAt}.  The routes are plain  *)
(* `def`s, which FastAPI serves from a thread pool: the callbacks run      *)
(* concurrently, statement by statement.                                   *)

\* the threads of the pool that serve callback requests
Threads == {1, 2}

UserIds == {1, 2}

NoUser == 0

\* a state value that get_spotify_auth_url never handed out
ForgedState == MaxIssued + 1

\* a session id that names no session
UnknownSession == MaxCalls + 1

\* SessionModel(id=..., user_spotify_id=..., expires_at=...)
SessionModel(id, user, expires) ==
    [id |-> id, user_spotify_id |-> user, expires_at |-> expires]

\* A row of the users table: the columns of database.User that logins write.
User(id, name, access) == [spotify_id |-> id, display_name |-> name, access_token |-> access]

\* what the tables hold when the process starts: users of earlier runs
StoredUser(id) == User(id, "stored", "stored")

\* StateCheck with its two tests in the other order
StateCheckSwapped(state, pending) ==
    IF state \notin pending THEN "invalid_state"
    ELSE IF state = EmptyState THEN "missing_state"
    ELSE "ok"

\* handle_spotify_callback: the two checks of state, in the order of the code
StateCheck(state, pending) ==
    IF state = EmptyState THEN "missing_state"
    ELSE IF state \notin pending THEN "invalid_state"
    ELSE "ok"

\* DeleteState without the delete
DeleteNothing(pending, state) == pending

\* DeleteState clearing the whole dict
DeleteEverything(pending, state) == {}

\* handle_spotify_callback: `del pending_states[state]`
DeleteState(pending, state) == pending \ {state}

\* handle_spotify_callback: `expires_at=datetime.now() + timedelta(days=7)`
ExpiresAt(t) == t + SessionDays

\* update_or_create_user, for a user the table holds: only the credentials are
\* written (refresh_token and token_expires_at go with access_token).
UpdateUser(row, access) == [row EXCEPT !.access_token = access]

\* get_current_user.  For a session that exists, line 27 reads
\* session.expired_at, which the session built at line 68 (expires_at) does not
\* carry, and compares it with func.now(), a SQL expression that has no truth
\* value: the call raises.  Read as it was meant (expires_at < now) the line
\* gives None for a session past its expiry, and otherwise line 30 reads the
\* local `user` before it is assigned and raises.  Both readings are outcomes.
GetCurrentUser(sid) ==
    IF sid = EmptySession THEN {"None"}
    ELSE IF sid \notin DOMAIN sessions THEN {"None"}
    ELSE {"raise"} \cup (IF sessions[sid].expires_at < now THEN {"None"} ELSE {"raise"})

IdleCall ==
    [pc |-> "idle",
     state |-> EmptyState,       \* the state argument
     was_pending |-> FALSE,      \* whether pending_states held it when it was checked
     removed |-> 0,              \* how many keys the call has deleted from pending_states
     token |-> "unset",          \* what get_access_token gave
     profile |-> "unset",        \* what sp.current_user() gave
     user |-> NoUser,            \* user['id']
     upserted |-> FALSE,         \* whether the call has committed to the users table
     session |-> EmptySession,   \* the session the call has committed
     result |-> "none"]          \* the "error" of what is returned, "success", or "fault"

AuthInit ==
    /\ pending_states = {}
    /\ \E U \in SUBSET UserIds : users = [u \in U |-> StoredUser(u)]
    /\ sessions = <<>>
    /\ now = 0
    /\ issued = 0
    /\ served = 0
    /\ cb = [c \in Threads |-> IdleCall]
    /\ lookup = <<>>

\* the clock moves on, a session's lifetime at a time; before the first session
\* exists nothing reads it
Tick ==
    /\ sessions # <<>>
    /\ now < MaxTicks * SessionDays
    /\ now' = now + SessionDays
    /\ UNCHANGED <<pending_states, users, sessions, issued, served, cb, mgr_vars>>
    /\ lookup' = <<>>

\* get_spotify_auth_url: secrets.token_urlsafe(32) gives a value never given before
get_spotify_auth_url ==
    /\ issued < MaxIssued
    /\ issued' = issued + 1
    /\ pending_states' = pending_states \cup {issued + 1}
    /\ UNCHANGED <<users, sessions, now, served, cb, mgr_vars>>
    /\ lookup' = <<>>

\* routes/auth.py callback: a request with a code arrives and reaches
\* handle_spotify_callback(db, code, state)
callback(c, state) ==
    /\ cb[c].pc \in {"idle", "done"}
    /\ served < MaxCalls
    /\ served' = served + 1
    /\ cb' = [cb EXCEPT ![c] = [IdleCall EXCEPT !.pc = "check", !.state = state]]
    /\ UNCHANGED <<pending_states, users, sessions, now, issued, mgr_vars>>
    /\ lookup' = <<>>

\* handle_spotify_callback: `if not state` and `if state not in pending_states`
check_state(c) ==
    /\ cb[c].pc = "check"
    /\ LET verdict == StateCheck(cb[c].state, pending_states)
       IN cb' = [cb EXCEPT ![c].was_pending = cb[c].state \in pending_states,
                           ![c].pc = IF verdict = "ok" THEN "delete" ELSE "done",
                           ![c].result = IF verdict = "ok" THEN "none" ELSE verdict]
    /\ UNCHANGED <<pending_states, users, sessions, now, issued, served, mgr_vars>>
    /\ lookup' = <<>>

\* handle_spotify_callback: `del pending_states[state]`, a KeyError when another
\* thread has deleted the key since the check
delete_state(c) ==
    /\ cb[c].pc = "delete"
    /\ IF cb[c].state \in pending_states
       THEN /\ pending_states' = DeleteState(pending_states, cb[c].state)
            /\ cb' = [cb EXCEPT ![c].pc = "exchange",
                                ![c].removed = @ + Cardinality(pending_states \ pending_states')]
       ELSE /\ cb' = [cb EXCEPT ![c].pc = "done", ![c].result = "fault"]
            /\ UNCHANGED pending_states
    /\ UNCHANGED <<users, sessions, now, issued, served, mgr_vars>>
    /\ lookup' = <<>>

\* handle_spotify_callback: `token_info = sp_oauth.get_access_token(code)` and
\* `if not token_info`; the provider gives a token, gives nothing, or the call raises
get_access_token(c, outcome) ==
    /\ cb[c].pc = "exchange"
    /\ cb' = [cb EXCEPT ![c].token = outcome,
                        ![c].pc = IF outcome = "token" THEN "profile" ELSE "done",
                        ![c].result = CASE outcome = "token" -> "none"
                                        [] outcome = "none" -> "token_error"
                                        [] OTHER -> "fault"]
    /\ UNCHANGED <<pending_states, users, sessions, now, issued, served, mgr_vars>>
    /\ lookup' = <<>>

\* handle_spotify_callback: `user = sp.current_user()` and `if not user`; the
\* provider gives the profile of the user who logged in, gives nothing, or raises
current_user(c, outcome) ==
    /\ cb[c].pc = "profile"
    /\ cb' = [cb EXCEPT ![c].profile = IF outcome \in UserIds THEN "user"
                                       ELSE IF outcome = NoUser THEN "none" ELSE "raise",
                        ![c].user = IF outcome \in UserIds THEN outcome ELSE NoUser,
                        ![c].pc = IF outcome \in UserIds THEN "upsert" ELSE "done",
                        ![c].result = IF outcome \in UserIds THEN "none"
                                      ELSE IF outcome = NoUser THEN "user_error"
                                      ELSE "fault"]
    /\ UNCHANGED <<pending_states, users, sessions, now, issued, served, mgr_vars>>
    /\ lookup' = <<>>

\* database_service.update_or_create_user.  For a user the table holds, the
\* credentials are refreshed and committed.  For a new user, User(...) is built
\* with email= and country=, which database.User does not have: the declarative
\* constructor raises TypeError before anything is added.
update_or_create_user(c) ==
    /\ cb[c].pc = "upsert"
    /\ IF cb[c].user \in DOMAIN users
       THEN /\ users' = [users EXCEPT ![cb[c].user] = UpdateUser(@, "fresh")]
            /\ cb' = [cb EXCEPT ![c].pc = "session", ![c].upserted = TRUE]
       ELSE /\ cb' = [cb EXCEPT ![c].pc = "done", ![c].result = "fault"]
            /\ UNCHANGED users
    /\ UNCHANGED <<pending_states, sessions, now, issued, served, mgr_vars>>
    /\ lookup' = <<>>

\* handle_spotify_callback: from `session_id = secrets.token_urlsafe(32)` to the return
create_session(c) ==
    /\ cb[c].pc = "session"
    /\ LET id == Len(sessions) + 1
       IN /\ sessions' = Append(sessions, SessionModel(id, cb[c].user, ExpiresAt(now)))
          /\ cb' = [cb EXCEPT ![c].pc = "done", ![c].result = "success", ![c].session = id]
    /\ UNCHANGED <<pending_states, users, now, issued, served, mgr_vars>>
    /\ lookup' = <<>>

\* routes/auth.py auth_status: get_current_user(db, session_id)
get_current_user(sid) ==
    /\ \E outcome \in GetCurrentUser(sid) :
          lookup' = [sid |-> sid, outcome |-> outcome]
    /\ UNCHANGED <<pending_states, users, sessions, now, issued, served, cb, mgr_vars>>

AuthNext ==
    \/ Tick
    \/ get_spotify_auth_url
    \/ \E c \in Threads : \E state \in {EmptyState, ForgedState} \cup (1..issued) :
          callback(c, state)
    \/ \E c \in Threads : check_state(c)
    \/ \E c \in Threads : delete_state(c)
    \/ \E c \in Threads : \E outcome \in {"token", "none", "raise"} :
          get_access_token(c, outcome)
    \/ \E c \in Threads : \E outcome \in UserIds \cup {NoUser, -1} : current_user(c, outcome)
    \/ \E c \in Threads : update_or_create_user(c)
    \/ \E c \in Threads : create_session(c)
    \/ \E sid \in {EmptySession, UnknownSession} \cup DOMAIN sessions : get_current_user(sid)

\* The tool is not part of the backend.
MgrQuiet ==
    /\ top_remote = <<>>
    /\ liked_remote = <<>>
    /\ batch_size = DEFAULT_BATCH_SIZE
    /\ cmd = "none"
    /\ limit = 1
    /\ dry_run = FALSE
    /\ pc = "done"
    /\ offset = 0
    /\ all_items = <<>>
    /\ top_tracks = <<>>
    /\ liked_songs = <<>>
    /\ top_track_ids = <<>>
    /\ action = "none"
    /\ track_ids = <<>>
    /\ i = 0
    /\ success_count = 0
    /\ error_count = 0
    /\ ret = "none"
    /\ result = "none"
    /\ trace = <<>>

----------------------------------------------------------------------------
(* The specifications.                                                     *)

Init == MgrInit /\ AuthQuiet

Next == MgrNext

Spec == Init /\ [][Next]_vars

\* A run of the tool is one sequential thread: whenever it has a next step, it
\* takes one (every sleep and every remote call of the provider comes back).
SpecLive == Init /\ [][Next]_vars /\ WF_vars(Next)

InitAuth == AuthInit /\ MgrQuiet

NextAuth == AuthNext

SpecAuth == InitAuth /\ [][NextAuth]_vars

----------------------------------------------------------------------------
(* Reading the trace.                                                      *)

Calls(api) == SelectSeq(trace, LAMBDA e : e.op = api)

Succeeded(calls) == SelectSeq(calls, LAMBDA e : e.ok)

Failed(calls) == SelectSeq(calls, LAMBDA e : ~e.ok)

\* The position among the calls of its api of the call at place j of the trace.
Ordinal(j) == Cardinality({k \in 1..j : trace[k].op = trace[j].op})

TopReturned == cmd \in {"show_top", "replace"} /\ pc \notin {"get_user_info", "top_loop", "top_format"}

LikedReturned ==
    \/ cmd = "show_liked" /\ pc = "done"
    \/ cmd = "replace" /\ pc \in {"clear", "batches", "clear_returned", "add_returned"}
    \/ cmd = "replace" /\ pc = "done" /\ action # "none"

BatchesReturned == pc \in {"clear_returned", "add_returned"}

InBatches == pc = "batches" \/ BatchesReturned

DryRun == cmd = "replace" /\ dry_run

----------------------------------------------------------------------------
(* C1. A dry run of replace_liked_with_top never calls the batch add or    *)
(* the batch remove of the provider, never requests a page of the liked    *)
(* songs and never changes the liked songs; with a non-empty target set it *)
(* returns True, and the plan it reports is the ids the top-track pages    *)
(* gave, in order.                                                         *)
C1_DryRunSideEffectFree ==
    /\ [](DryRun =>
            /\ \A j \in 1..Len(trace) :
                  trace[j].op \notin {"saved_tracks", "saved_tracks_delete", "saved_tracks_add"}
            /\ pc = "done" =>
                  /\ top_track_ids = ConcatItems(Calls("top_tracks"))
                  /\ top_track_ids # <<>> => result = "True")
    /\ [][DryRun' => liked_remote' = liked_remote]_vars

C1_Witness ==
    /\ DryRun
    /\ pc = "done"
    /\ result = "True"
    /\ Len(top_track_ids) = MaxTop
    /\ Len(Calls("top_tracks")) > 1

(* C2. When _process_in_batches returns, success_count is the total size of *)
(* the batches whose call succeeded, error_count the total size of those   *)
(* whose call failed, the two add up to len(track_ids), and it returns     *)
(* True exactly when error_count is 0; for an empty list it returns True   *)
(* with no call made.                                                      *)
C2_BatchAccounting ==
    BatchesReturned =>
        LET calls == Calls(ApiMethod(action))
        IN /\ success_count = SumLen(Succeeded(calls))
           /\ error_count = SumLen(Failed(calls))
           /\ success_count + error_count = Len(track_ids)
           /\ ret = "True" <=> error_count = 0
           /\ ret \in {"True", "False"}
           /\ track_ids = <<>> => calls = <<>>

\* 45 ids, batches of 20, only the 2nd call failing: 25 successful, 20 failed, False.
C2_Witness ==
    /\ BatchesReturned
    /\ Len(track_ids) = 45
    /\ batch_size = 20
    /\ LET calls == Calls(ApiMethod(action))
       IN Len(calls) = 3 /\ calls[1].ok /\ ~calls[2].ok /\ calls[3].ok
    /\ success_count = 25
    /\ error_count = 20
    /\ ret = "False"

(* C3. _process_in_batches calls the provider once per batch, in ascending  *)
(* order: the k-th call carries the k-th contiguous slice of at most        *)
(* batch_size ids, whatever the outcome of the earlier calls; when it       *)
(* returns it has made ceil(len(track_ids) / batch_size) calls, whose       *)
(* slices put together are track_ids.                                       *)
C3_BatchSplitting ==
    InBatches =>
        LET calls == Calls(ApiMethod(action))
            n == Len(track_ids)
        IN /\ \A k \in 1..Len(calls) :
                 /\ calls[k].ids = SubSeq(track_ids, (k - 1) * batch_size + 1,
                                          Min(k * batch_size, n))
                 /\ Len(calls[k].ids) >= 1
                 /\ Len(calls[k].ids) <= batch_size
           /\ pc = "batches" => Len(calls) * batch_size = i
           /\ BatchesReturned =>
                 /\ Len(calls) = Ceil(n, batch_size)
                 /\ Concat(calls) = track_ids

C3_Witness ==
    /\ BatchesReturned
    /\ LET calls == Calls(ApiMethod(action))
       IN /\ Len(calls) = 3
          /\ ~calls[1].ok
          /\ Len(calls[3].ids) < batch_size
    /\ batch_size > 1

(* C4. In a run of _process_in_batches the inter-batch delay is slept once  *)
(* right after each successful call that is not the last batch's, nothing   *)
(* is slept after a successful last batch, and the error delay is slept     *)
(* once right after each failed call; over the whole run of the tool there  *)
(* are as many error delays as failed mutation calls.                       *)
C4_DelayDiscipline ==
    /\ Len(SelectSeq(trace, LAMBDA e : e = Sleep("error_delay")))
          = Len(Failed(Calls("saved_tracks_delete"))) + Len(Failed(Calls("saved_tracks_add")))
    /\ InBatches =>
          \A j \in 1..Len(trace) :
              trace[j].op = ApiMethod(action) =>
                  LET last == Ordinal(j) * batch_size >= Len(track_ids)
                      slept == IF j < Len(trace) /\ trace[j + 1].op = "sleep"
                               THEN trace[j + 1].secs ELSE "nothing"
                  IN /\ slept = IF ~trace[j].ok THEN "error_delay"
                                ELSE IF last THEN "nothing" ELSE "delay"
                     /\ j + 1 < Len(trace) => trace[j + 2].op # "sleep"

\* three batches, only the 2nd failing: one error delay, one inter-batch delay
C4_Witness ==
    /\ BatchesReturned
    /\ LET calls == Calls(ApiMethod(action))
       IN Len(calls) = 3 /\ calls[1].ok /\ ~calls[2].ok /\ calls[3].ok
    /\ Len(SelectSeq(trace, LAMBDA e : e = Sleep("error_delay"))) = 1
    /\ trace[Len(trace)].op = ApiMethod(action)

(* C5. With no page request failing, get_top_tracks returns all N items of  *)
(* the provider in provider order with index 1..N, after floor(N/limit)+1   *)
(* page requests at offsets 0, limit, 2 limit, ..., of which only the last  *)
(* returned fewer than limit items (an empty page when N is a multiple of   *)
(* limit).                                                                  *)
C5_Pagination ==
    (TopReturned /\ Failed(Calls("top_tracks")) = <<>>) =>
        LET reqs == Calls("top_tracks")
            N == Len(top_remote)
        IN /\ Len(reqs) = (N \div limit) + 1
           /\ \A k \in 1..Len(reqs) :
                 /\ reqs[k].offset = (k - 1) * limit
                 /\ reqs[k].limit = limit
                 /\ Len(reqs[k].items) < limit <=> k = Len(reqs)
           /\ Len(top_tracks) = N
           /\ \A k \in 1..N : top_tracks[k] = [index |-> k, id |-> top_remote[k]]

\* N a positive multiple of limit: the last request returns an empty page
C5_Witness ==
    /\ TopReturned
    /\ Failed(Calls("top_tracks")) = <<>>
    /\ limit = 2
    /\ Len(top_remote) = 2
    /\ Len(Calls("top_tracks")) = 2
    /\ Calls("top_tracks")[2].items = <<>>

(* C6. get_liked_songs leaves out the entries whose track is null, and the  *)
(* records it returns carry the index values 1..k in order, k being the     *)
(* number of entries fetched whose track is not null.                       *)
C6_NullTrackSkip ==
    LikedReturned =>
        LET valid == SelectSeq(ConcatItems(Calls("saved_tracks")),
                               LAMBDA t : t # NullTrack)
        IN /\ Len(liked_songs) = Len(valid)
           /\ \A k \in 1..Len(liked_songs) :
                 liked_songs[k] = [index |-> k, id |-> valid[k]]

----------------------------------------------------------------------------
(* Reading the callbacks.                                                  *)

Rejections == {"missing_state", "invalid_state", "token_error", "user_error"}

\* a state value that was handed out and is no longer pending
Consumed(state) == state \in 1..issued /\ state \notin pending_states

\* the call of thread c is at or past the token exchange
PastDelete(c) == cb[c].pc \in {"exchange", "profile", "upsert", "session"} \/ cb[c].token # "unset"

\* thread c takes the step that checks state
Checks(c) == cb[c].pc = "check" /\ cb'[c].pc # "check"

(* C7. A state value is used once.  A call reaches the token exchange only  *)
(* after it has deleted its state from pending_states, whether the exchange *)
(* then succeeds or fails; a deleted state never becomes pending again; and *)
(* every call that checks a state deleted before fails with invalid_state,  *)
(* without a token exchange, a user commit or a session.                    *)
C7_StateSingleUse ==
    /\ [](\A c \in Threads :
            /\ PastDelete(c) => Consumed(cb[c].state)
            /\ cb[c].result = "invalid_state" =>
                  /\ cb[c].pc = "done"
                  /\ cb[c].token = "unset"
                  /\ ~cb[c].upserted
                  /\ cb[c].session = EmptySession)
    /\ [][/\ \A s \in 1..issued : Consumed(s) => Consumed(s)'
          /\ \A c \in Threads :
                (Checks(c) /\ Consumed(cb[c].state)) => cb'[c].result = "invalid_state"]_vars

\* a call whose token exchange failed, and a later call with the same state
C7_Witness ==
    \E c \in Threads : \E d \in Threads :
        /\ cb[c].result = "token_error"
        /\ cb[d].result = "invalid_state"
        /\ cb[d].state = cb[c].state

(* C8. A finished call returned missing_state exactly when its state was    *)
(* absent or empty, invalid_state exactly when its state was not empty and  *)
(* not pending when checked, token_error exactly when get_access_token gave *)
(* nothing, and user_error exactly when the profile lookup gave nothing; a  *)
(* call with one of these four outcomes has committed no user and no        *)
(* session, and the step that returns it leaves both tables as they were.   *)
C8_ErrorOutcomes ==
    /\ [](\A c \in Threads :
            cb[c].pc = "done" =>
                /\ cb[c].result = "missing_state" <=> cb[c].state = EmptyState
                /\ cb[c].result = "invalid_state" <=>
                      (cb[c].state # EmptyState /\ ~cb[c].was_pending)
                /\ cb[c].result = "token_error" <=> cb[c].token = "none"
                /\ cb[c].result = "user_error" <=> cb[c].profile = "none"
                /\ cb[c].result \in Rejections =>
                      ~cb[c].upserted /\ cb[c].session = EmptySession)
    /\ [][\A c \in Threads :
             (cb'[c] # cb[c] /\ cb'[c].result \in Rejections) =>
                 users' = users /\ sessions' = sessions]_vars

C8_Witness ==
    \E c \in Threads : \E d \in Threads :
        /\ cb[c].result = "user_error"
        /\ cb[d].result = "missing_state"
        /\ users # <<>>

(* C9, as claimed. Every finished call has removed exactly one state from   *)
(* pending_states.                                                          *)
C9_OneRemovalPerCall ==
    \A c \in Threads : cb[c].pc = "done" => cb[c].removed = 1

(* C9, amended. A call removes at most one state from pending_states, and   *)
(* only the one it presented: exactly one once it is past the delete of     *)
(* line 51, whether the token exchange, the profile lookup and the login    *)
(* then succeed or fail, and none when it returns missing_state or          *)
(* invalid_state or when the delete itself raises.                          *)
C9_OneRemovalPastTheChecks ==
    /\ [](\A c \in Threads :
            /\ cb[c].removed = IF PastDelete(c) THEN 1 ELSE 0
            /\ PastDelete(c) => cb[c].state \notin pending_states
            /\ (cb[c].pc = "done" /\ cb[c].result \in {"missing_state", "invalid_state"})
                  => ~PastDelete(c)
            /\ (cb[c].pc = "done" /\ cb[c].result \in {"token_error", "user_error", "success"})
                  => PastDelete(c))
    /\ [][\A s \in pending_states \ pending_states' :
             \E c \in Threads :
                 /\ cb[c].pc = "delete"
                 /\ cb[c].state = s
                 /\ cb'[c].removed = 1
                 /\ pending_states' = pending_states \ {s}]_vars

\* one call won and one lost, each after removing its state
C9_Witness ==
    \E c \in Threads : \E d \in Threads :
        /\ cb[c].result = "success"
        /\ cb[c].removed = 1
        /\ cb[d].result = "token_error"
        /\ cb[d].removed = 1
        /\ cb[c].state # cb[d].state

(* C10. get_current_user gives None whenever the session id is empty, names *)
(* no session, or names a session with now >= expires_at.                   *)
C10_SessionExpiry ==
    lookup # <<>> =>
        ((\/ lookup.sid = EmptySession
          \/ lookup.sid \notin DOMAIN sessions
          \/ now >= sessions[lookup.sid].expires_at)
            => lookup.outcome = "None")

----------------------------------------------------------------------------
(* Reading the lookups.                                                    *)

\* routes/auth.py auth_status: `if user` authenticated, else not; what
\* get_current_user raises goes through
auth_status(outcome) ==
    IF outcome = "raise" THEN "fault"
    ELSE IF outcome = "None" THEN "unauthenticated"
    ELSE "authenticated"

\* the session the id names is live and its user is in the users table
LiveSession(sid) ==
    /\ sid \in DOMAIN sessions
    /\ now < sessions[sid].expires_at
    /\ sessions[sid].user_spotify_id \in DOMAIN users

(* C11. For a session id that names a session with now < expires_at whose   *)
(* user is in the users table, get_current_user returns that user, and      *)
(* /auth/status reports authenticated.                                      *)
C11_SessionResolution ==
    (lookup # <<>> /\ LiveSession(lookup.sid)) =>
        /\ lookup.outcome = "user"
        /\ auth_status(lookup.outcome) = "authenticated"

----------------------------------------------------------------------------
(* Reading the replace workflow.                                           *)

Replace == cmd = "replace"

\* replace_liked_with_top has taken its decision on top_track_ids
TargetFetched == Replace /\ pc \notin {"get_user_info", "top_loop", "top_format", "fetch_target"}

Returned == Replace /\ pc = "done"

LikedOps == {"saved_tracks", "saved_tracks_delete", "saved_tracks_add"}

(* C12. When the top-track fetch of replace_liked_with_top yields no id,    *)
(* because the provider holds no top track or because the first page        *)
(* request failed, the workflow returns False at once: it requests no page  *)
(* of the liked songs and calls neither the batch remove nor the batch add. *)
C12_EmptyTargetFails ==
    (TargetFetched /\ top_track_ids = <<>>) =>
        /\ pc = "done"
        /\ result = "False"
        /\ \A j \in 1..Len(trace) : trace[j].op \notin LikedOps
        /\ \/ top_remote = <<>>
           \/ ~Calls("top_tracks")[1].ok

\* the provider holds top tracks and the first page request failed
C12_Witness ==
    /\ Returned
    /\ ~dry_run
    /\ top_track_ids = <<>>
    /\ top_remote # <<>>
    /\ Len(Calls("top_tracks")) = 1
    /\ ~Calls("top_tracks")[1].ok
    /\ liked_remote # <<>>
    /\ result = "False"

(* C13. In a non-dry-run replace in which a remove call failed, no add call *)
(* is ever made and the workflow returns False; the clear phase still       *)
(* makes the remove calls of all its batches, those after the failed one    *)
(* included.                                                                *)
C13_ClearFailureAborts ==
    (Replace /\ ~dry_run /\ Failed(Calls("saved_tracks_delete")) # <<>>) =>
        /\ Calls("saved_tracks_add") = <<>>
        /\ action = "Removing"
        /\ pc \in {"batches", "clear_returned", "done"}
        /\ pc # "batches" =>
              /\ Len(Calls("saved_tracks_delete")) = Ceil(Len(track_ids), batch_size)
              /\ Concat(Calls("saved_tracks_delete")) = Ids(liked_songs)
              /\ ret = "False"
        /\ pc = "done" => result = "False"

\* the first remove batch failed, the second was still made and went through,
\* and the destination is left partially cleared
C13_Witness ==
    /\ Returned
    /\ ~dry_run
    /\ top_track_ids # <<>>
    /\ LET calls == Calls("saved_tracks_delete")
       IN Len(calls) = 2 /\ ~calls[1].ok /\ calls[2].ok
    /\ liked_remote # <<>>
    /\ result = "False"

\* the phase of the workflow a remote call belongs to; 0 for what belongs to none
PhaseOfCall(op) ==
    CASE op = "top_tracks" -> 1
      [] op = "saved_tracks" -> 2
      [] op = "saved_tracks_delete" -> 3
      [] op = "saved_tracks_add" -> 4
      [] OTHER -> 0

\* the phase of the workflow a position of the run belongs to
PhaseOfPc(at, act) ==
    CASE at = "main" -> 0
      [] at \in {"get_user_info", "top_loop", "top_format", "fetch_target"} -> 1
      [] at \in {"liked_loop", "liked_format", "clear", "clear_returned"} -> 2
      [] at = "batches" -> IF act = "Removing" THEN 2 ELSE 3
      [] at = "add_returned" -> 3
      [] OTHER -> 4

(* C14. In a non-dry-run replace the remote calls come in the order of the  *)
(* phases: every top-track page request before every liked-songs page       *)
(* request, these before every remove call, and every remove call before    *)
(* every add call.  The add calls carry the ids the top-track pages gave,   *)
(* which are fetched once and never change afterwards, and the run never    *)
(* goes back to an earlier phase.                                           *)
C14_LinearPhases ==
    /\ []((Replace /\ ~dry_run) =>
            /\ \A j \in 1..Len(trace) : \A k \in j..Len(trace) :
                  (PhaseOfCall(trace[j].op) > 0 /\ PhaseOfCall(trace[k].op) > 0)
                      => PhaseOfCall(trace[j].op) <= PhaseOfCall(trace[k].op)
            /\ TargetFetched => top_track_ids = ConcatItems(Calls("top_tracks"))
            /\ LET adds == Calls("saved_tracks_add")
               IN /\ \A k \in 1..Len(adds) :
                        adds[k].ids = SubSeq(top_track_ids, (k - 1) * batch_size + 1,
                                             Min(k * batch_size, Len(top_track_ids)))
                  /\ (pc = "add_returned" \/ (pc = "done" /\ action = "Adding"))
                        => Concat(adds) = top_track_ids)
    /\ [][(Replace /\ ~dry_run) =>
             /\ PhaseOfPc(pc', action') >= PhaseOfPc(pc, action)
             /\ TargetFetched =>
                   /\ top_track_ids' = top_track_ids
                   /\ Calls("top_tracks")' = Calls("top_tracks")]_vars

\* a run through all four phases, with more than one call in the last two
C14_Witness ==
    /\ Returned
    /\ ~dry_run
    /\ result = "True"
    /\ Len(Calls("top_tracks")) > 1
    /\ Len(Calls("saved_tracks_delete")) > 1
    /\ Len(Calls("saved_tracks_add")) > 1

\* the requests before the last one
ButLast(reqs) == SubSeq(reqs, 1, Len(reqs) - 1)

NonNull(items) == SelectSeq(items, LAMBDA t : t # NullTrack)

(* C15. When a page request of get_top_tracks or get_liked_songs fails, it  *)
(* is the last page request of that call: the k-1 requests before it all    *)
(* gave full pages, none follows it, and the call returns the items of      *)
(* those k-1 pages in order (for get_liked_songs the entries among them     *)
(* whose track is not null, in order).                                      *)
C15_FetchPartialSuccess ==
    /\ LET reqs == Calls("top_tracks")
       IN Failed(reqs) # <<>> =>
             /\ ~reqs[Len(reqs)].ok
             /\ \A k \in 1..(Len(reqs) - 1) : reqs[k].ok /\ Len(reqs[k].items) = limit
             /\ pc # "top_loop"
             /\ TopReturned =>
                   LET items == ConcatItems(ButLast(reqs))
                   IN /\ Len(top_tracks) = Len(items)
                      /\ \A k \in 1..Len(items) :
                            top_tracks[k] = [index |-> k, id |-> items[k]]
    /\ LET reqs == Calls("saved_tracks")
       IN Failed(reqs) # <<>> =>
             /\ ~reqs[Len(reqs)].ok
             /\ \A k \in 1..(Len(reqs) - 1) :
                   reqs[k].ok /\ Len(reqs[k].items) = LikedPageSize
             /\ pc # "liked_loop"
             /\ LikedReturned => Ids(liked_songs) = NonNull(ConcatItems(ButLast(reqs)))

\* in one run the second top-track request and the second liked-songs request
\* failed, each after a full first page
C15_Witness ==
    /\ Replace
    /\ LikedReturned
    /\ LET reqs == Calls("top_tracks")
       IN Len(reqs) = 2 /\ ~reqs[2].ok /\ Len(top_tracks) = limit
    /\ LET reqs == Calls("saved_tracks")
       IN Len(reqs) = 2 /\ ~reqs[2].ok /\ Len(liked_songs) = LikedPageSize

----------------------------------------------------------------------------
(* Reading the callbacks, continued.                                       *)

\* the remote call the callback of thread c made raised
RemoteCallRaised(c) == cb[c].token = "raise" \/ cb[c].profile = "raise"

\* the delete of line 51 of thread c raised
DeleteRaised(c) == cb[c].result = "fault" /\ cb[c].was_pending /\ cb[c].token = "unset"

(* C16. A callback whose token exchange or profile lookup raised returns a  *)
(* structured result: it does not end in a fault.                           *)
C16_NoUncaughtFault ==
    \A c \in Threads :
        (cb[c].pc = "done" /\ RemoteCallRaised(c)) => cb[c].result \in Rejections

(* C17. Of two callbacks that present the same pending state and both pass  *)
(* the check of line 48 before either deletes it, one goes on to the token  *)
(* exchange and the other returns invalid_state: never both reach the       *)
(* exchange, and neither ends in a fault at the delete.                     *)
C17_ConcurrentCallbacks ==
    \A c \in Threads : \A d \in Threads \ {c} :
        (/\ cb[c].state = cb[d].state
         /\ cb[c].was_pending
         /\ cb[d].was_pending) =>
            /\ ~(PastDelete(c) /\ PastDelete(d))
            /\ ~DeleteRaised(c)
            /\ (PastDelete(c) /\ cb[d].pc = "done") => cb[d].result = "invalid_state"

\* the callback of thread c passed the state check, the token exchange and
\* the profile lookup
LoggedIn(c) == cb[c].was_pending /\ cb[c].token = "token" /\ cb[c].profile = "user"

(* C18. Every callback that passed the state check, the token exchange and  *)
(* the profile lookup has, once finished, created one session; a callback   *)
(* has a session only if it passed the three, and the session is bound to   *)
(* the user who logged in and expires 7 days after it was created.          *)
C18_SessionLifecycle ==
    /\ \A c \in Threads :
          /\ (cb[c].pc = "done" /\ LoggedIn(c)) => cb[c].session # EmptySession
          /\ cb[c].session # EmptySession =>
                /\ LoggedIn(c)
                /\ cb[c].session \in DOMAIN sessions
                /\ sessions[cb[c].session].user_spotify_id = cb[c].user
    /\ \A sid \in DOMAIN sessions :
          /\ sessions[sid].id = sid
          /\ sessions[sid].expires_at <= now + SessionDays

(* C19. Every finished callback that passed the state check, the token      *)
(* exchange and the profile lookup has committed its user: the users table  *)
(* holds one record under the id of the profile, with the credentials of    *)
(* this login, whether the id was in the table before or is new.            *)
C19_UserUpsert ==
    /\ \A c \in Threads :
          (cb[c].pc = "done" /\ LoggedIn(c)) =>
              /\ cb[c].upserted
              /\ cb[c].user \in DOMAIN users
              /\ users[cb[c].user].access_token = "fresh"
    /\ \A u \in DOMAIN users : users[u].spotify_id = u

----------------------------------------------------------------------------
(* C20. The list get_top_tracks returns to --show-top, and the target list  *)
(* replace_liked_with_top builds from it, holds at most `limit` tracks.     *)
C20_LimitBoundsTarget ==
    TopReturned =>
        /\ Len(top_tracks) <= limit
        /\ Len(top_track_ids) <= limit

----------------------------------------------------------------------------
\* the tracks a list holds
TrackSet(ids) == {ids[k] : k \in 1..Len(ids)} \ {NullTrack}

(* C21. When a replace that is not a dry run returns True, the tracks in    *)
(* the provider's liked songs are the target ids the top-track fetch gave,  *)
(* no more and no fewer, whichever remote calls failed during the run.      *)
C21_SuccessPostcondition ==
    (Returned /\ ~dry_run /\ result = "True") =>
        TrackSet(liked_remote) = TrackSet(top_track_ids)

----------------------------------------------------------------------------
\* the page requests and the mutation calls of the run stay within what the
\* sizes of the collections allow
CallsBounded ==
    /\ Len(Calls("top_tracks")) <= (Len(top_remote) \div limit) + 1
    /\ pc \in {"liked_loop", "liked_format"} =>
          Len(Calls("saved_tracks")) <= (Len(liked_remote) \div LikedPageSize) + 1
    /\ Len(Calls("saved_tracks_delete")) <= Ceil(Len(liked_songs), batch_size)
    /\ Len(Calls("saved_tracks_add")) <= Ceil(Len(top_track_ids), batch_size)

\* page requests are made only inside the loop of their fetch
PagesOnlyInLoops ==
    /\ pc # "top_loop" => Calls("top_tracks")' = Calls("top_tracks")
    /\ pc # "liked_loop" => Calls("saved_tracks")' = Calls("saved_tracks")

(* C22. Every call of replace_liked_with_top returns, whatever the sizes of *)
(* the two collections, the page size, the batch size and the remote calls  *)
(* that fail.  Until then it makes at most floor(N/limit)+1 page requests   *)
(* for a collection of N items, all inside the loop of its fetch, and at    *)
(* most ceil(n/batch_size) mutation calls for the n ids of a phase.         *)
C22_Termination ==
    /\ []CallsBounded
    /\ [][PagesOnlyInLoops]_vars
    /\ Replace ~> Returned

\* a run that returned after failures in a fetch and in both mutation phases
\* of more than one batch
C22_Witness ==
    /\ Returned
    /\ ~dry_run
    /\ Failed(Calls("top_tracks")) # <<>>
    /\ Len(Calls("saved_tracks_delete")) > 1
    /\ Failed(Calls("saved_tracks_delete")) = <<>>
    /\ Failed(Calls("saved_tracks_add")) # <<>>
    /\ Len(Calls("saved_tracks_add")) > 1

=============================================================================
